---- MODULE Spec2Model ----
(***************************************************************************)
(* Combat Extender (Wrath & Glory module for Foundry VTT).                 *)
(*                                                                         *)
(* State machine of the weapon attack dialog as patched by                 *)
(* scripts/combat-options/dialog.js and of the turn effects of             *)
(* scripts/combat-options/turn-effects.js.                                 *)
(*                                                                         *)
(* The host (Foundry, the Wrath & Glory system) is the environment: its    *)
(* own computeFields yields a baseline drawn from a bounded set, it fires  *)
(* the hooks, and it resolves or rejects the promises the module awaits.   *)
(***************************************************************************)
EXTENDS Integers, FiniteSets, Sequences, TLC

VARIABLES
  weapon,            \* dialog.weapon: [isRanged, isMelee, pistol, salvo]
  target,            \* dialog.data.targets[0]: [id, size]
  engaged,           \* Boolean(getEngagedEffect(actor))
  actor,             \* the attacker: [fullDefence, allOutAttack] (statuses it has)
  systemId,          \* game.system.id
  boot,              \* start-up of the module: [libWrapper, WeaponDialog, phase, hooks,
                     \*   timer, patches, renders]
  fields,            \* dialog.fields
  systemBaseline,    \* dialog._combatExtenderSystemBaseline: <<>> or <<baseline>>
  combatExtenderDelta, \* dialog._combatExtenderDelta: <<>> (undefined) or <<delta>>
  emptySize,         \* history: what normalizeSizeKey("") returned in the last computeFields
  manualOverrides,   \* dialog._combatOptionsManualOverrides: function on the overridden keys
  typed,             \* history: input name -> the value the user last typed into it
  flags,             \* dialog.flags.combatExtender: <<>> (unset) or <<[delta |-> <<>> or <<d>>]>>
  isRendering,       \* app._isRendering
  pc,                \* per renderWeaponDialog handler run: "idle" or "await" (at renderTemplate)
  ctx,               \* per handler run: what it captured before the await
  closure,           \* what the last completed render left: its listeners, its locals
  dom,               \* the dialog html
  app,               \* app._combatOptions* bookkeeping
  calls,             \* syncAllOutAttackCondition calls in flight
  lastCall,          \* history: the syncAllOutAttackCondition call that completed last
  primaryGM,         \* isActivePrimaryGM() on this client
  combat,            \* the combat: [turn, round]; combat.combatant is the combatant of the turn
  conditions,        \* per combatant: the condition ids its actor has
  pending,           \* pendingPersistentDamageCombatants.get(combat.id): <<>> or <<id>>
  update,            \* the combat update in progress on this client
  prompts,           \* history: combatants prompted since the present turn change began
  reminder,          \* history: <<>> or <<ids>>, the reminder the last combatTurn created
  last               \* the operation that produced the current state

staticVars == <<weapon, target, systemId, boot>>
actorVars == <<engaged, actor>>
computeVars == <<systemBaseline, combatExtenderDelta, emptySize>>
manualVars == <<manualOverrides, typed>>
renderVars == <<isRendering, pc, ctx, closure, dom, app>>
callVars == <<calls, lastCall>>
turnVars == <<primaryGM, combat, conditions, pending, update, prompts, reminder>>

vars == <<staticVars, actorVars, fields, computeVars, manualVars, flags, renderVars,
          callVars, turnVars, last>>

----------------------------------------------------------------------------
(* Bounds of the model *)

\* host baseline pool ranges over 0..MaxPool
MaxPool == 1
\* host baseline difficulty ranges over 0..MaxDN
MaxDN == 1
\* renderWeaponDialog handler runs that may overlap on one dialog
MaxHandlers == 2
\* inputs of one dialog the user edits by hand
MaxEdits == 2
\* syncAllOutAttackCondition calls that may be in flight at once
MaxCalls == 2
\* combatants of the combat
MaxCombatants == 3
\* rounds of the combat
MaxRound == 2

----------------------------------------------------------------------------
(* Tables of constants.js, as the option labels of dialog.js state them *)

CoverKeys == {"", "half", "full"}
VisionKeys == {"", "twilight", "dim", "heavy", "darkness"}
SizeKeys == {"", "tiny", "small", "large", "huge", "gargantuan"}
RangeBands == {"short", "medium"}

\* VISION_PENALTIES[key]; <<>> when the key has no entry
VISION_PENALTIES(key) ==
  CASE key = "twilight" -> <<[melee |-> 0, ranged |-> 1]>>
    [] key = "dim"      -> <<[melee |-> 1, ranged |-> 2]>>
    [] key = "heavy"    -> <<[melee |-> 2, ranged |-> 3]>>
    [] key = "darkness" -> <<[melee |-> 3, ranged |-> 4]>>
    [] OTHER            -> <<>>

\* SIZE_MODIFIER_OPTIONS[key]; <<>> when the key has no entry
SIZE_MODIFIER_OPTIONS(key) ==
  CASE key = "tiny"       -> <<[pool |-> 0, difficulty |-> 2]>>
    [] key = "small"      -> <<[pool |-> 0, difficulty |-> 1]>>
    [] key = "large"      -> <<[pool |-> 1, difficulty |-> 0]>>
    [] key = "huge"       -> <<[pool |-> 2, difficulty |-> 0]>>
    [] key = "gargantuan" -> <<[pool |-> 3, difficulty |-> 0]>>
    [] OTHER              -> <<>>

\* normalizeCoverKey: the known keys, anything else is no cover
normalizeCoverKey(key) == IF key \in {"half", "full"} THEN key ELSE ""

\* getCoverDifficulty (COVER_DIFFICULTY_VALUES)
getCoverDifficulty(key) ==
  CASE key = "half" -> 1
    [] key = "full" -> 2
    [] OTHER        -> 0

\* normalizeSizeKey; what it returns for the empty key ("" or "average") is
\* not fixed by dialog.js and is an input, emptySizeKey
normalizeSizeKey(key, emptySizeKey) == IF key = "" THEN emptySizeKey ELSE key

EmptySizeKeys == {"", "average"}

----------------------------------------------------------------------------
(* Values *)

\* Math.max(0, x)
Max0(x) == IF x > 0 THEN x ELSE 0

\* a melee weapon, a rapid-fire ranged weapon, a pistol
WeaponKinds ==
  { [isRanged |-> FALSE, isMelee |-> TRUE,  pistol |-> FALSE, salvo |-> 0],
    [isRanged |-> TRUE,  isMelee |-> FALSE, pistol |-> FALSE, salvo |-> 2],
    [isRanged |-> TRUE,  isMelee |-> FALSE, pistol |-> TRUE,  salvo |-> 1] }

Pistol == [isRanged |-> TRUE, isMelee |-> FALSE, pistol |-> TRUE, salvo |-> 1]
Melee == [isRanged |-> FALSE, isMelee |-> TRUE, pistol |-> FALSE, salvo |-> 0]

\* targets of the sizes getTargetSize can return
Targets == { [id |-> "t1", size |-> sz] : sz \in {"average", "large"} }

\* damage, ed, ap and wrath of the host baseline: a weapon profile whose
\* numbers are pairwise distinct
DamageProfiles ==
  { [damage |-> 5, ed |-> [value |-> 1, dice |-> 2], ap |-> [value |-> 3, dice |-> 4], wrath |-> 1] }

\* what the host's own computeFields leaves in pool, difficulty, damage, ed, ap, wrath
Baselines ==
  { [pool |-> p, difficulty |-> d, damage |-> g.damage, ed |-> g.ed, ap |-> g.ap, wrath |-> g.wrath] :
      p \in 0..MaxPool, d \in 0..MaxDN, g \in DamageProfiles }

\* _defaultFields patch: the option fields the module adds, on a host that
\* has not computed yet
DefaultFields(range) ==
  [ pool |-> 0, difficulty |-> 0, damage |-> 0,
    ed |-> [value |-> 0, dice |-> 0], ap |-> [value |-> 0, dice |-> 0], wrath |-> 0,
    range |-> range,
    cover |-> "", visionPenalty |-> "", sizeModifier |-> "",
    allOutAttack |-> FALSE, charging |-> FALSE, aim |-> FALSE, brace |-> FALSE,
    pinning |-> FALSE, pistolsInMelee |-> FALSE, disarm |-> FALSE,
    calledShot |-> [enabled |-> FALSE, size |-> ""] ]

NoOverrides == [k \in {} |-> 0]
HasOverride(m, k) == k \in DOMAIN m

----------------------------------------------------------------------------
(* combatOptionsActive(fields) *)

combatOptionsActive(f, emptySizeKey) ==
  \/ f.allOutAttack
  \/ f.charging
  \/ f.aim
  \/ f.brace
  \/ f.pinning
  \/ normalizeCoverKey(f.cover) # ""
  \/ f.pistolsInMelee
  \/ normalizeSizeKey(f.sizeModifier, emptySizeKey) # ""
  \/ f.visionPenalty # ""
  \/ f.disarm
  \/ f.calledShot.enabled
  \/ normalizeSizeKey(f.calledShot.size, emptySizeKey) # ""

----------------------------------------------------------------------------
(* applyCombatExtender(dialog), in the order of the code *)

\* the guard of the "pistols while engaged" block
EngagementBlock(w, isEngaged) == isEngaged /\ w.isRanged /\ w.pistol

\* a run that goes on from the fields the last run left
RestartFromBaseline_KeepsFields(f, b) == f

\* lines 402-415: fields restarted from the host baseline
RestartFromBaseline(f, b) ==
  [f EXCEPT !.pool = b.pool, !.difficulty = b.difficulty, !.damage = b.damage,
            !.ed = b.ed, !.ap = b.ap, !.wrath = b.wrath]

\* lines 477-501: the option fields the engagement block rewrites
EngagementFields(f, w, isEngaged) ==
  IF EngagementBlock(w, isEngaged)
    THEN [f EXCEPT !.aim = FALSE, !.pistolsInMelee = TRUE]
    ELSE f

\* ModifiedPool with the charge die counted twice
ModifiedPool_ChargeTwice(f, w, isEngaged) ==
  LET size == SIZE_MODIFIER_OPTIONS(f.sizeModifier)
  IN  f.pool
      + (IF EngagementBlock(w, isEngaged) /\ f.range = "short" THEN -1 ELSE 0)
      + (IF f.allOutAttack THEN 2 ELSE 0)
      + (IF f.charging THEN 2 ELSE 0)
      + (IF size # <<>> THEN size[1].pool ELSE 0)

\* the local variable pool after all modifiers (lines 441-547)
ModifiedPool(f, w, isEngaged) ==
  LET size == SIZE_MODIFIER_OPTIONS(f.sizeModifier)
  IN  f.pool
      + (IF EngagementBlock(w, isEngaged) /\ f.range = "short" THEN -1 ELSE 0)
      + (IF f.allOutAttack THEN 2 ELSE 0)
      + (IF f.charging THEN 1 ELSE 0)
      + (IF size # <<>> THEN size[1].pool ELSE 0)

\* VisionPenalty that reads the ranged value for every weapon
VisionPenalty_AlwaysRanged(f, w) ==
  LET data == VISION_PENALTIES(f.visionPenalty)
      penalty == IF data = <<>> THEN 0 ELSE data[1].ranged
  IN  IF penalty > 0 THEN penalty ELSE 0

\* the vision penalty of lines 523-531
VisionPenalty(f, w) ==
  LET data == VISION_PENALTIES(f.visionPenalty)
      penalty == IF data = <<>> THEN 0
                 ELSE IF w.isMelee THEN data[1].melee ELSE data[1].ranged
  IN  IF penalty > 0 THEN penalty ELSE 0

\* the cover delta of lines 558-566
CoverDelta(f, defaultCover) ==
  getCoverDifficulty(normalizeCoverKey(f.cover))
    - getCoverDifficulty(normalizeCoverKey(defaultCover))

\* the local variable difficulty after all modifiers (lines 442-566)
ModifiedDifficulty(f, w, isEngaged, defaultCover) ==
  LET size == SIZE_MODIFIER_OPTIONS(f.sizeModifier)
  IN  f.difficulty
      + (IF EngagementBlock(w, isEngaged) THEN 2 ELSE 0)
      + VisionPenalty(f, w)
      + (IF size # <<>> THEN size[1].difficulty ELSE 0)
      + CoverDelta(f, defaultCover)

\* a disarm that zeroes the damage and leaves the extra damage
ModifiedDamage_KeepsEd(f) ==
  IF f.disarm
    THEN [damage |-> 0, ed |-> f.ed]
    ELSE [damage |-> f.damage, ed |-> f.ed]

\* damage, edValue, edDice after the disarm block (lines 549-574)
ModifiedDamage(f) ==
  IF f.disarm
    THEN [damage |-> 0, ed |-> [value |-> 0, dice |-> 0]]
    ELSE [damage |-> f.damage, ed |-> f.ed]

\* ComputeDelta that records the damage values themselves, not their difference
ComputeDelta_DamageNotSubtracted(snapshot, pool, difficulty, dmg, ap) ==
  [ pool |-> pool - snapshot.pool,
    difficulty |-> difficulty - snapshot.difficulty,
    damage |-> dmg.damage,
    ed |-> [value |-> dmg.ed.value, dice |-> dmg.ed.dice],
    ap |-> [value |-> ap.value - snapshot.ap.value,
            dice  |-> ap.dice - snapshot.ap.dice] ]

\* lines 576-589
ComputeDelta(snapshot, pool, difficulty, dmg, ap) ==
  [ pool |-> pool - snapshot.pool,
    difficulty |-> difficulty - snapshot.difficulty,
    damage |-> dmg.damage - snapshot.damage,
    ed |-> [value |-> dmg.ed.value - snapshot.ed.value,
            dice  |-> dmg.ed.dice - snapshot.ed.dice],
    ap |-> [value |-> ap.value - snapshot.ap.value,
            dice  |-> ap.dice - snapshot.ap.dice] ]

\* lines 591-626: manual overrides win over the computed values
ClampPair(p) == [value |-> Max0(p.value), dice |-> Max0(p.dice)]

FinalFields(f, m, pool, difficulty, dmg) ==
  [f EXCEPT
     !.pool = IF HasOverride(m, "pool") THEN Max0(m["pool"]) ELSE Max0(pool),
     !.difficulty = IF HasOverride(m, "difficulty") THEN Max0(m["difficulty"])
                    ELSE Max0(difficulty),
     !.damage = IF HasOverride(m, "damage") THEN m["damage"] ELSE dmg.damage,
     !.ed = ClampPair(IF HasOverride(m, "ed") THEN m["ed"] ELSE dmg.ed),
     !.ap = ClampPair(IF HasOverride(m, "ap") THEN m["ap"] ELSE f.ap),
     !.wrath = IF HasOverride(m, "wrath") THEN Max0(m["wrath"]) ELSE Max0(f.wrath)]

\* a run without the pass-through block
PassThrough_Never(f, snapshot, m, w, isEngaged, emptySizeKey) == f

\* lines 628-651: with nothing active the host baseline is put back
PassThrough(f, snapshot, m, w, isEngaged, emptySizeKey) ==
  IF /\ DOMAIN m = {}
     /\ ~(w.isRanged /\ isEngaged)
     /\ ~combatOptionsActive(f, emptySizeKey)
    THEN [f EXCEPT !.pool = snapshot.pool, !.difficulty = snapshot.difficulty,
                   !.damage = snapshot.damage, !.ed = snapshot.ed, !.ap = snapshot.ap]
    ELSE f

\* the whole function: the new fields and the recorded delta
applyCombatExtender(f0, b, m, w, isEngaged, defaultCover, emptySizeKey) ==
  LET snapshot == RestartFromBaseline(f0, b)
      f1 == EngagementFields(snapshot, w, isEngaged)
      pool == ModifiedPool(f1, w, isEngaged)
      difficulty == ModifiedDifficulty(f1, w, isEngaged, defaultCover)
      dmg == ModifiedDamage(f1)
      f2 == FinalFields(f1, m, pool, difficulty, dmg)
  IN  [ fields |-> PassThrough(f2, snapshot, m, w, isEngaged, emptySizeKey),
        delta  |-> ComputeDelta(snapshot, pool, difficulty, dmg, f1.ap) ]

----------------------------------------------------------------------------
(* Operations on the dialog *)

DialogOpen == flags = <<>>

\* the patched WeaponDialog.computeFields: the host computes the baseline b,
\* the patch clones it and runs applyCombatExtender
ComputeFields(b, emptySizeKey) ==
  /\ DialogOpen
  /\ LET r == applyCombatExtender(fields, b, manualOverrides, weapon, engaged,
                                  app.defaultCover, emptySizeKey)
     IN  /\ fields' = r.fields
         /\ combatExtenderDelta' = <<r.delta>>
  /\ systemBaseline' = <<b>>
  /\ emptySize' = emptySizeKey
  /\ last' = "computeFields"
  /\ UNCHANGED <<staticVars, turnVars, actorVars, manualVars, flags, renderVars, callVars>>

\* the dialog script's submit(dialog): the submission closes the dialog
Submit ==
  /\ DialogOpen
  /\ flags' = <<[delta |-> combatExtenderDelta]>>
  /\ last' = "submit"
  /\ UNCHANGED <<staticVars, turnVars, actorVars, fields, computeVars, manualVars, renderVars, callVars>>

\* engagement.js gives or takes the Engaged effect as tokens move
ToggleEngaged ==
  /\ DialogOpen
  /\ engaged' = ~engaged
  /\ last' = "engagement"
  /\ UNCHANGED <<staticVars, turnVars, actor, fields, computeVars, manualVars, flags, renderVars, callVars>>

\* the patched _prepareContext, the lines after the wrapped call
PrepareContext ==
  /\ DialogOpen
  /\ fields' = IF ~(weapon.isRanged /\ weapon.salvo > 1) /\ fields.pinning
                 THEN [fields EXCEPT !.pinning = FALSE] ELSE fields
  /\ app' = [app EXCEPT !.canPistolsInMelee = <<weapon.pistol /\ engaged>>]
  /\ last' = "prepareContext"
  /\ UNCHANGED <<staticVars, turnVars, actorVars, computeVars, manualVars, flags,
                 isRendering, pc, ctx, closure, dom, callVars>>

----------------------------------------------------------------------------
(* syncAllOutAttackCondition(actor, enabled), turn-effects.js *)

Idle == [pc |-> "idle", enabled |-> FALSE, hadCondition |-> FALSE]
IsWng == systemId = "wrath-and-glory"

\* a call that adds whatever the actor has
SkipAdd_Never(hasCondition) == FALSE

\* the guard of line 14: nothing is added to an actor that has the condition
SkipAdd(hasCondition) == hasCondition

\* the call returns before any await: lines 10-11 and 14
ReturnsAtOnce(enabled) == ~IsWng \/ (enabled /\ SkipAdd(actor.allOutAttack))

\* the synchronous part of a call on slot c, up to its first await
SyncStart(c, enabled) ==
  /\ calls[c].pc = "idle"
  /\ IF ReturnsAtOnce(enabled)
       THEN /\ lastCall' = <<[enabled |-> enabled, ok |-> TRUE, wng |-> IsWng]>>
            /\ calls' = calls
       ELSE /\ calls' = [calls EXCEPT ![c] =
                  [pc |-> IF enabled THEN "adding" ELSE "removing",
                   enabled |-> enabled, hadCondition |-> actor.allOutAttack]]
            /\ lastCall' = lastCall

\* a call of the exported function
SyncCall(c, enabled) ==
  /\ SyncStart(c, enabled)
  /\ last' = IF ReturnsAtOnce(enabled) THEN "syncDone" ELSE "syncCalled"
  /\ UNCHANGED <<staticVars, turnVars, actorVars, fields, computeVars, manualVars, flags, renderVars>>

\* the host resolves actor.addCondition("all-out-attack")
AddResolves(c) ==
  /\ calls[c].pc = "adding"
  /\ actor' = [actor EXCEPT !.allOutAttack = TRUE]
  /\ calls' = [calls EXCEPT ![c] = Idle]
  /\ lastCall' = <<[enabled |-> TRUE, ok |-> TRUE, wng |-> TRUE]>>
  /\ last' = "syncDone"
  /\ UNCHANGED <<staticVars, turnVars, engaged, fields, computeVars, manualVars, flags, renderVars>>

\* the host resolves actor.removeCondition("all-out-attack")
RemoveResolves(c) ==
  /\ calls[c].pc = "removing"
  /\ actor' = [actor EXCEPT !.allOutAttack = FALSE]
  /\ calls' = [calls EXCEPT ![c] = Idle]
  /\ lastCall' = <<[enabled |-> FALSE, ok |-> TRUE, wng |-> TRUE]>>
  /\ last' = "syncDone"
  /\ UNCHANGED <<staticVars, turnVars, engaged, fields, computeVars, manualVars, flags, renderVars>>

\* the host rejects the awaited call: the catch block logs it
HostRejects(c) ==
  /\ calls[c].pc \in {"adding", "removing"}
  /\ calls' = [calls EXCEPT ![c] = Idle]
  /\ lastCall' = <<[enabled |-> calls[c].enabled, ok |-> FALSE, wng |-> TRUE]>>
  /\ last' = "syncDone"
  /\ UNCHANGED <<staticVars, turnVars, actorVars, fields, computeVars, manualVars, flags, renderVars>>

\* removeAllOutAttackFromActor at a turn change, or the host's own effects
\* panel: the condition goes without a sync call
ConditionRemoved ==
  /\ actor.allOutAttack
  /\ actor' = [actor EXCEPT !.allOutAttack = FALSE]
  /\ last' = "conditionRemoved"
  /\ UNCHANGED <<staticVars, turnVars, engaged, fields, computeVars, manualVars, flags, renderVars, callVars>>

----------------------------------------------------------------------------
(* The turn hooks of registerTurnEffectHooks, turn-effects.js *)

Combatants == 1..MaxCombatants

\* constants.js: the ids of the two condition tables
PERSISTENT_DAMAGE_CONDITIONS == {"onfire", "bleeding"}
SLOWED_CONDITIONS == {"hindered", "restrained"}

\* the condition sets an actor of the combat has
ActorConditionSets ==
  { {}, {"onfire"}, {"hindered"}, {"bleeding", "hindered", "restrained"} }

NoUpdate == [phase |-> "idle", changed |-> {}, turn |-> 1, round |-> 1, outgoing |-> 1,
             local |-> TRUE]

shouldHandlePersistentDamage == IsWng /\ primaryGM
shouldNotifySlowedConditions == IsWng /\ primaryGM

isTurnChangeUpdate(changed) == changed \cap {"turn", "combatantId", "round"} # {}

actorHasPersistentDamage(c) == conditions[c] \cap PERSISTENT_DAMAGE_CONDITIONS # {}

\* markPendingPersistentDamage: the pending entry after the call
markPendingPersistentDamage(p, changed) ==
  IF isTurnChangeUpdate(changed) /\ actorHasPersistentDamage(combat.turn)
    THEN <<combat.turn>> ELSE p

\* promptPersistentDamageAtTurnEnd: the prompts after the call for combatant c
promptPersistentDamageAtTurnEnd(ps, c) ==
  IF actorHasPersistentDamage(c) THEN Append(ps, c) ELSE ps

\* promptPendingPersistentDamage: the entry is deleted before the prompt opens
promptPendingPersistentDamage(ps, p) ==
  [ pending |-> <<>>,
    prompts |-> IF p = <<>> THEN ps ELSE promptPersistentDamageAtTurnEnd(ps, p[1]) ]

\* a collection that matches nothing against the table
collectSlowedConditions_Unfiltered(c) == conditions[c]

\* collectSlowedConditions(actor)
collectSlowedConditions(c) == conditions[c] \cap SLOWED_CONDITIONS

\* notifySlowedConditions(combat): the reminder it creates, if any
notifySlowedConditions ==
  IF shouldNotifySlowedConditions /\ collectSlowedConditions(combat.turn) # {}
    THEN <<collectSlowedConditions(combat.turn)>> ELSE <<>>

\* the combatTurn hook: Combat#nextTurn or #previousTurn on this client calls it
\* before it requests the update
CombatTurn(turn) ==
  /\ update.phase = "idle"
  /\ turn # combat.turn
  /\ reminder' = notifySlowedConditions
  /\ LET r == promptPendingPersistentDamage(<<>>, pending)
     IN  IF shouldHandlePersistentDamage
           THEN pending' = r.pending /\ prompts' = r.prompts
           ELSE pending' = pending /\ prompts' = <<>>
  /\ update' = [phase |-> "hooked", changed |-> {"turn"}, turn |-> turn,
                round |-> combat.round, outgoing |-> combat.turn, local |-> TRUE]
  /\ last' = "combatTurn"
  /\ UNCHANGED <<staticVars, actorVars, fields, computeVars, manualVars, flags,
                 renderVars, callVars, primaryGM, combat, conditions>>

\* the updates this client requests without Combat#nextTurn: the next round
\* (its turn key is in the diff only if the turn moves) and one that changes
\* no turn
RequestedUpdates ==
  { [changed |-> {"round"} \cup (IF combat.turn # 1 THEN {"turn"} ELSE {}),
     turn |-> 1, round |-> combat.round + 1],
    [changed |-> {"active"}, turn |-> combat.turn, round |-> combat.round] }

\* the preUpdateCombat hook: it fires on the client that requests the update
PreUpdateCombat(u) ==
  /\ \/ update.phase = "hooked" /\ u = [changed |-> update.changed, turn |-> update.turn,
                                       round |-> update.round]
     \/ update.phase = "idle" /\ u \in RequestedUpdates
  /\ u.round <= MaxRound
  /\ pending' = IF shouldHandlePersistentDamage
                  THEN markPendingPersistentDamage(pending, u.changed) ELSE pending
  /\ prompts' = IF update.phase = "idle" THEN <<>> ELSE prompts
  /\ update' = [phase |-> "sent", changed |-> u.changed, turn |-> u.turn,
                round |-> u.round, outgoing |-> combat.turn, local |-> TRUE]
  /\ last' = "preUpdateCombat"
  /\ UNCHANGED <<staticVars, actorVars, fields, computeVars, manualVars, flags,
                 renderVars, callVars, primaryGM, combat, conditions, reminder>>

\* the updateCombat hook, for the update u that has been applied: the phase
\* the handler leaves and the prompts it opens
UpdateCombatHandler(u, ps, local) ==
  /\ combat' = [turn |-> u.turn, round |-> u.round]
  /\ LET r == promptPendingPersistentDamage(ps, pending)
         timer == isTurnChangeUpdate(u.changed) /\ primaryGM
     IN  /\ update' = [phase |-> IF timer THEN "timer" ELSE "idle", changed |-> u.changed,
                       turn |-> u.turn, round |-> u.round, outgoing |-> combat.turn,
                       local |-> local]
         /\ IF timer /\ shouldHandlePersistentDamage
              THEN pending' = r.pending /\ prompts' = r.prompts
              ELSE pending' = pending /\ prompts' = ps
  /\ last' = "updateCombat"
  /\ UNCHANGED <<staticVars, actorVars, fields, computeVars, manualVars, flags,
                 renderVars, callVars, primaryGM, conditions, reminder>>

\* the update this client requested comes back from the server
UpdateCombat ==
  /\ update.phase = "sent"
  /\ UpdateCombatHandler([changed |-> update.changed, turn |-> update.turn,
                          round |-> update.round], prompts, TRUE)

\* the updates another client requests: its preUpdateCombat and combatTurn
\* hooks fire on that client, this one gets the updateCombat hook only
RemoteUpdates ==
  { [changed |-> {"turn"}, turn |-> t, round |-> combat.round] :
      t \in Combatants \ {combat.turn} } \cup RequestedUpdates

RemoteUpdateCombat(u) ==
  /\ update.phase = "idle"
  /\ u \in RemoteUpdates
  /\ u.round <= MaxRound
  /\ UpdateCombatHandler(u, <<>>, FALSE)

\* the setTimeout callback of the updateCombat hook: removeAllOutAttackFromActor
\* for the combatant whose turn began; combatant 1 is the attacker `actor`
TimerFires ==
  /\ update.phase = "timer"
  /\ actor' = IF combat.turn = 1 /\ IsWng THEN [actor EXCEPT !.allOutAttack = FALSE] ELSE actor
  /\ update' = [update EXCEPT !.phase = "idle"]
  /\ last' = "timer"
  /\ UNCHANGED <<staticVars, engaged, fields, computeVars, manualVars, flags,
                 renderVars, callVars, primaryGM, combat, conditions, pending, prompts,
                 reminder>>

----------------------------------------------------------------------------
(* The renderWeaponDialog handler *)

\* getTargetSize(dialog)
getTargetSize(t) == t.size

\* a handler run that is not in progress holds nothing
NoCtx == [isEngaged |-> FALSE, disableAllOutAttack |-> FALSE, existing |-> 0,
          shouldRecompute |-> FALSE,
          fields |-> DefaultFields("short")]

\* a handler without the guard
SkipRender_Never(rendering) == FALSE

\* line 724: a render that arrives while one is in progress is skipped
SkipRender(rendering) == rendering

\* lines 813-875: the option fields the handler rewrites before it renders
RenderFields(f, a, w, isEngaged, act, t, hasPistolsInput) ==
  LET canPistolsInMelee ==
        IF a.canPistolsInMelee # <<>> THEN a.canPistolsInMelee[1] ELSE w.pistol /\ isEngaged
      f1 == IF hasPistolsInput /\ ~canPistolsInMelee
              THEN [f EXCEPT !.pistolsInMelee = FALSE] ELSE f
      f2 == IF act.fullDefence THEN [f1 EXCEPT !.allOutAttack = FALSE] ELSE f1
      coverOverride == IF a.coverTargetId # <<t.id>> THEN FALSE ELSE a.coverOverride
      f3 == IF ~coverOverride THEN [f2 EXCEPT !.cover = ""] ELSE f2
      defaultSize == IF a.defaultSize # <<>> THEN a.defaultSize[1] ELSE getTargetSize(t)
      defaultFieldValue == IF defaultSize = "average" THEN "" ELSE defaultSize
      sizeOverride == a.sizeOverride /\ f.sizeModifier # defaultFieldValue
  IN  IF ~sizeOverride THEN [f3 EXCEPT !.sizeModifier = defaultFieldValue] ELSE f3

\* the local shouldRecompute (line 803), as far as option fields set it: lines
\* 817-819, 831-833, 855-857 and 870-872, each where the handler rewrites an
\* option field that held another value
ShouldRecompute(f, a, w, isEngaged, act, t, hasPistolsInput) ==
  RenderFields(f, a, w, isEngaged, act, t, hasPistolsInput) # f

\* lines 838-868: the bookkeeping the handler rewrites before it renders
RenderApp(f, a, t) ==
  LET coverOverride == IF a.coverTargetId # <<t.id>> THEN FALSE ELSE a.coverOverride
      defaultSize == IF a.defaultSize # <<>> THEN a.defaultSize[1] ELSE getTargetSize(t)
      defaultFieldValue == IF defaultSize = "average" THEN "" ELSE defaultSize
  IN  [a EXCEPT !.coverOverride = coverOverride,
                !.coverTargetId = <<t.id>>,
                !.defaultCover = "",
                !.defaultSize = <<defaultSize>>,
                !.sizeOverride = a.sizeOverride /\ f.sizeModifier # defaultFieldValue]

\* a handler that inserts its block whatever it found
InjectRoot_AlwaysInserts(d, c) ==
  [d EXCEPT !.coRoots = d.coRoots + 1,
            !.aimChecked = c.fields.aim,
            !.aimDisabled = FALSE]

\* lines 880-894: the block replaces the roots found before the await (line
\* 880), each by one block, or is inserted when none was found
InjectRoot(d, c) ==
  [d EXCEPT !.coRoots = IF c.existing > 0 THEN d.coRoots ELSE d.coRoots + 1,
            !.aimChecked = c.fields.aim,
            !.aimDisabled = FALSE]

\* lines 896-903: the aim checkbox of the block, engaged with a ranged weapon
DisableAim(d, w, isEngaged) ==
  IF isEngaged /\ w.isRanged /\ d.coRoots > 0
    THEN [d EXCEPT !.aimDisabled = TRUE, !.aimChecked = FALSE]
    ELSE d

\* syncDialogInputsFromFields(app, html): every named input shows its field
syncDialogInputsFromFields(d, f) ==
  IF d.coRoots > 0 THEN [d EXCEPT !.aimChecked = f.aim] ELSE d

\* the handler from its start to the await of renderTemplate (lines 720-882)
RenderStart(h) ==
  /\ DialogOpen
  /\ pc[h] = "idle"
  /\ IF SkipRender(isRendering)
       THEN /\ last' = "renderSkipped"
            /\ UNCHANGED <<fields, renderVars>>
       ELSE IF ~dom.hasAttack
         THEN \* the early return of line 739 runs the finally block
              /\ dom' = [dom EXCEPT !.hostAim = FALSE]
              /\ isRendering' = FALSE
              /\ last' = "renderNoAttack"
              /\ UNCHANGED <<fields, pc, ctx, closure, app>>
         ELSE /\ isRendering' = TRUE
              /\ dom' = [dom EXCEPT !.hostAim = FALSE]
              /\ fields' = RenderFields(fields, app, weapon, engaged, actor, target,
                                        dom.coRoots > 0)
              /\ app' = RenderApp(fields, app, target)
              /\ ctx' = [ctx EXCEPT ![h] =
                           [isEngaged |-> engaged,
                            disableAllOutAttack |-> actor.fullDefence,
                            existing |-> dom.coRoots,
                            shouldRecompute |->
                              ShouldRecompute(fields, app, weapon, engaged, actor, target,
                                              dom.coRoots > 0),
                            fields |-> RenderFields(fields, app, weapon, engaged, actor,
                                                    target, FALSE)]]
              /\ pc' = [pc EXCEPT ![h] = "await"]
              /\ last' = "renderStarted"
              /\ UNCHANGED closure
  /\ UNCHANGED <<staticVars, turnVars, actorVars, computeVars, manualVars, flags, callVars>>

\* renderTemplate resolved: the rest of the handler and its finally block
\* (lines 883-975)
RenderFinish(h) ==
  /\ DialogOpen
  /\ pc[h] = "await"
  /\ LET canPinning == weapon.isRanged /\ weapon.salvo > 1
         f1 == IF ~canPinning THEN [fields EXCEPT !.pinning = FALSE] ELSE fields
         d1 == DisableAim(InjectRoot(dom, ctx[h]), weapon, ctx[h].isEngaged)
     IN  /\ fields' = f1
         /\ dom' = syncDialogInputsFromFields(d1, f1)
  /\ closure' = [bound |-> TRUE, isEngaged |-> ctx[h].isEngaged,
                 shouldRecompute |-> ctx[h].shouldRecompute,
                 disableAllOutAttack |-> ctx[h].disableAllOutAttack]
  /\ isRendering' = FALSE
  /\ pc' = [pc EXCEPT ![h] = "idle"]
  /\ ctx' = [ctx EXCEPT ![h] = NoCtx]
  /\ last' = "renderFinished"
  /\ UNCHANGED <<staticVars, turnVars, actorVars, computeVars, manualVars, flags, app, callVars>>

\* renderTemplate rejected: the finally block and the catch block
RenderFail(h) ==
  /\ DialogOpen
  /\ pc[h] = "await"
  /\ isRendering' = FALSE
  /\ pc' = [pc EXCEPT ![h] = "idle"]
  /\ ctx' = [ctx EXCEPT ![h] = NoCtx]
  /\ last' = "renderFailed"
  /\ UNCHANGED <<staticVars, turnVars, actorVars, fields, computeVars, manualVars, flags,
                 closure, dom, app, callVars>>

----------------------------------------------------------------------------
(* The listeners a render binds *)

\* the change listener of the Combat Options block (lines 925-968); the
\* recomputation the host's _onFieldChange starts is the action ComputeFields
ChangeOption(name, value, c) ==
  /\ DialogOpen
  /\ closure.bound
  /\ name = "aim" => ~dom.aimDisabled
  /\ IF name = "allOutAttack" /\ closure.disableAllOutAttack
       THEN /\ fields' = [fields EXCEPT !.allOutAttack = FALSE]
            /\ UNCHANGED <<app, dom, callVars>>
       ELSE /\ fields' = [fields EXCEPT ![name] = value]
            /\ app' = [app EXCEPT
                 !.sizeOverride = IF name = "sizeModifier" THEN TRUE ELSE @,
                 !.coverOverride = IF name = "cover" THEN TRUE ELSE @]
            /\ dom' = IF name = "aim" THEN [dom EXCEPT !.aimChecked = value] ELSE dom
            /\ IF name = "allOutAttack"
                 THEN SyncStart(c, value)
                 ELSE UNCHANGED callVars
  /\ last' = "change"
  /\ UNCHANGED <<staticVars, turnVars, actorVars, computeVars, manualVars, flags,
                 isRendering, pc, ctx, closure>>

ManualInputs ==
  {"pool", "difficulty", "damage", "ed.value", "ed.dice", "ap.value", "ap.dice", "wrath"}

\* values a user types into a number input
ManualValues == {-1, 2}

\* foundry.utils.setProperty(fields, name, value) for the manual inputs
SetManualField(f, name, value) ==
  CASE name = "ed.value" -> [f EXCEPT !.ed.value = value]
    [] name = "ed.dice"  -> [f EXCEPT !.ed.dice = value]
    [] name = "ap.value" -> [f EXCEPT !.ap.value = value]
    [] name = "ap.dice"  -> [f EXCEPT !.ap.dice = value]
    [] OTHER             -> [f EXCEPT ![name] = value]

\* the override key an input belongs to
OverrideKey(name) ==
  CASE name \in {"ed.value", "ed.dice"} -> "ed"
    [] name \in {"ap.value", "ap.dice"} -> "ap"
    [] OTHER -> name

\* a snapshot that starts from nothing instead of the stored overrides
ManualSnapshot_StartsEmpty(m, f, name) ==
  [k \in {OverrideKey(name)} |-> f[OverrideKey(name)]]

\* lines 683-708: the snapshot of the overrides after an edit of input name
ManualSnapshot(m, f, name) ==
  LET key == OverrideKey(name)
  IN  [k \in DOMAIN m \cup {key} |-> IF k = key THEN f[key] ELSE m[k]]

\* the listener trackManualOverrideSnapshots binds (lines 675-714)
ManualEdit(name, value) ==
  /\ DialogOpen
  /\ closure.bound
  /\ Cardinality(DOMAIN typed) < MaxEdits \/ name \in DOMAIN typed
  /\ LET f1 == SetManualField(fields, name, value)
     IN  /\ fields' = f1
         /\ manualOverrides' = ManualSnapshot(manualOverrides, f1, name)
  /\ typed' = [n \in DOMAIN typed \cup {name} |-> IF n = name THEN value ELSE typed[n]]
  /\ last' = "manualEdit"
  /\ UNCHANGED <<staticVars, turnVars, actorVars, computeVars, flags, renderVars, callVars>>

----------------------------------------------------------------------------
(* Patch registration: the setup hook of dialog.js and what it hooks *)

\* renderWeaponDialog events the start-up is followed over
MaxRenders == 3

\* registerLibWrapperPatches(): returns at once without the WeaponDialog class
\* (lines 203-206), else registers the four patches (lines 208-330);
\* patches counts the times the four were registered
registerLibWrapperPatches(b) ==
  IF ~b.WeaponDialog THEN b ELSE [b EXCEPT !.patches = @ + 1]

\* Hooks.once("setup"): nothing without libWrapper (lines 168-171), else the
\* two once-hooks of lines 176 and 194
SetupHook ==
  /\ boot.phase = "loaded"
  /\ boot' = [boot EXCEPT !.phase = "setup",
                          !.hooks = IF boot.libWrapper
                                    THEN {"ready", "renderWeaponDialog"} ELSE {}]
  /\ last' = "setup"
  /\ UNCHANGED <<weapon, target, systemId, turnVars, actorVars, fields, computeVars,
                 manualVars, flags, renderVars, callVars>>

\* the host's ready event; the once-hook of lines 176-191 registers at once
\* when the class is there, else starts the 100 ms timer
ReadyHook ==
  /\ boot.phase = "setup"
  /\ boot' = IF "ready" \notin boot.hooks
             THEN [boot EXCEPT !.phase = "ready"]
             ELSE IF boot.WeaponDialog
                  THEN registerLibWrapperPatches(
                         [boot EXCEPT !.phase = "ready", !.hooks = @ \ {"ready"}])
                  ELSE [boot EXCEPT !.phase = "ready", !.hooks = @ \ {"ready"},
                                    !.timer = "pending"]
  /\ last' = "ready"
  /\ UNCHANGED <<weapon, target, systemId, turnVars, actorVars, fields, computeVars,
                 manualVars, flags, renderVars, callVars>>

\* the setTimeout callback of lines 184-190
RetryTimerFires ==
  /\ boot.timer = "pending"
  /\ boot' = IF boot.WeaponDialog
             THEN registerLibWrapperPatches([boot EXCEPT !.timer = "registered"])
             ELSE [boot EXCEPT !.timer = "failed"]
  /\ last' = "retry"
  /\ UNCHANGED <<weapon, target, systemId, turnVars, actorVars, fields, computeVars,
                 manualVars, flags, renderVars, callVars>>

\* a renderWeaponDialog event; the once-hook of lines 194-199 runs on the
\* first one and calls registerLibWrapperPatches when the class is missing
RenderWeaponDialogOnce ==
  /\ boot.phase = "ready"
  /\ boot.renders < MaxRenders
  /\ boot' = IF "renderWeaponDialog" \notin boot.hooks
             THEN [boot EXCEPT !.renders = @ + 1]
             ELSE IF ~boot.WeaponDialog
                  THEN registerLibWrapperPatches(
                         [boot EXCEPT !.renders = @ + 1,
                                      !.hooks = @ \ {"renderWeaponDialog"}])
                  ELSE [boot EXCEPT !.renders = @ + 1,
                                    !.hooks = @ \ {"renderWeaponDialog"}]
  /\ last' = "renderWeaponDialog"
  /\ UNCHANGED <<weapon, target, systemId, turnVars, actorVars, fields, computeVars,
                 manualVars, flags, renderVars, callVars>>

\* the game system publishes game.wng.applications.WeaponDialog
SystemPublishesWeaponDialog ==
  /\ ~boot.WeaponDialog
  /\ boot' = [boot EXCEPT !.WeaponDialog = TRUE]
  /\ last' = "publish"
  /\ UNCHANGED <<weapon, target, systemId, turnVars, actorVars, fields, computeVars,
                 manualVars, flags, renderVars, callVars>>

\* the world after a start-up that registered the patches at ready
Booted ==
  [libWrapper |-> TRUE, WeaponDialog |-> TRUE, phase |-> "ready",
   hooks |-> {"renderWeaponDialog"}, timer |-> "none", patches |-> 1, renders |-> 0]

----------------------------------------------------------------------------
(* Initial states *)

OptionFields(range) ==
  { [DefaultFields(range) EXCEPT
       !.cover = c, !.visionPenalty = v, !.sizeModifier = s,
       !.allOutAttack = a, !.charging = ch, !.aim = ai, !.disarm = di] :
      c \in CoverKeys, v \in VisionKeys, s \in SizeKeys,
      a \in BOOLEAN, ch \in BOOLEAN, ai \in BOOLEAN, di \in BOOLEAN }

Handlers == 1..MaxHandlers
CallSlots == 1..MaxCalls

\* everything but the dialog's weapon, attacker, target and fields: a dialog
\* that was constructed and has not been computed or rendered
InitDialog ==
  /\ systemBaseline = <<>>
  /\ emptySize = ""
  /\ combatExtenderDelta = <<>>
  /\ manualOverrides = NoOverrides
  /\ typed = NoOverrides
  /\ flags = <<>>
  /\ isRendering = FALSE
  /\ pc = [h \in Handlers |-> "idle"]
  /\ ctx = [h \in Handlers |-> NoCtx]
  /\ closure = [bound |-> FALSE, isEngaged |-> FALSE, shouldRecompute |-> FALSE,
             disableAllOutAttack |-> FALSE]
  /\ app = [coverOverride |-> FALSE, sizeOverride |-> FALSE, coverTargetId |-> <<>>,
            defaultCover |-> "", defaultSize |-> <<>>, canPistolsInMelee |-> <<>>]
  /\ calls = [c \in CallSlots |-> Idle]
  /\ lastCall = <<>>
  /\ last = "init"

\* the same in a world whose start-up registered the patches
InitRest ==
  /\ InitDialog
  /\ boot = Booted

\* no combat is running
InitNoCombat ==
  /\ primaryGM = FALSE
  /\ combat = [turn |-> 1, round |-> 1]
  /\ conditions = [c \in Combatants |-> {}]
  /\ pending = <<>>
  /\ update = NoUpdate
  /\ prompts = <<>>
  /\ reminder = <<>>

----------------------------------------------------------------------------
(* Spec: the recomputation, from every option combination the dialog holds *)

Init ==
  /\ weapon \in WeaponKinds
  /\ target = [id |-> "t1", size |-> "average"]
  /\ systemId = "wrath-and-glory"
  /\ engaged \in BOOLEAN
  /\ actor = [fullDefence |-> FALSE, allOutAttack |-> FALSE]
  /\ \E range \in RangeBands : fields \in OptionFields(range)
  /\ dom = [hasAttack |-> TRUE, hostAim |-> TRUE, coRoots |-> 0,
            aimDisabled |-> FALSE, aimChecked |-> FALSE]
  /\ InitRest
  /\ InitNoCombat

Next ==
  \/ \E b \in Baselines, e \in EmptySizeKeys : ComputeFields(b, e)
  \/ Submit

Spec == Init /\ [][Next]_vars

----------------------------------------------------------------------------
(* SpecHost: the recomputation over host baselines of either sign *)

\* what a host may leave in the fields: numbers of either sign
HostBaselines ==
  { [pool |-> p, difficulty |-> d, damage |-> g.damage, ed |-> g.ed, ap |-> g.ap,
     wrath |-> g.wrath] :
      p \in {-1, 0, 2}, d \in {-1, 3},
      g \in DamageProfiles \cup
            { [damage |-> -1, ed |-> [value |-> -1, dice |-> -2],
               ap |-> [value |-> -3, dice |-> -4], wrath |-> -1] } }

HostOptionFields(range) ==
  { [DefaultFields(range) EXCEPT
       !.cover = c, !.sizeModifier = s, !.charging = ch, !.disarm = di] :
      c \in {"", "half"}, s \in {"", "large"}, ch \in BOOLEAN, di \in BOOLEAN }

InitHost ==
  /\ weapon \in WeaponKinds
  /\ target = [id |-> "t1", size |-> "average"]
  /\ systemId = "wrath-and-glory"
  /\ engaged \in BOOLEAN
  /\ actor = [fullDefence |-> FALSE, allOutAttack |-> FALSE]
  /\ \E range \in RangeBands : fields \in HostOptionFields(range)
  /\ dom = [hasAttack |-> TRUE, hostAim |-> TRUE, coRoots |-> 0,
            aimDisabled |-> FALSE, aimChecked |-> FALSE]
  /\ InitRest
  /\ InitNoCombat

NextHost ==
  \/ \E b \in HostBaselines, e \in EmptySizeKeys : ComputeFields(b, e)
  \/ Submit

SpecHost == InitHost /\ [][NextHost]_vars

----------------------------------------------------------------------------
(* SpecRender: one dialog, its renders, its option listeners *)

\* the option changes a user makes in SpecRender
RenderOptionInputs == { <<"aim", TRUE>>, <<"aim", FALSE>> }

RenderBaseline ==
  [pool |-> 1, difficulty |-> 1, damage |-> 5, ed |-> [value |-> 1, dice |-> 2],
   ap |-> [value |-> 3, dice |-> 4], wrath |-> 1]

InitRender ==
  /\ weapon \in WeaponKinds
  /\ target \in Targets
  /\ systemId = "wrath-and-glory"
  /\ engaged \in BOOLEAN
  /\ actor = [fullDefence |-> FALSE, allOutAttack |-> FALSE]
  /\ fields = DefaultFields("short")
  /\ \E hasAttack \in BOOLEAN :
       dom = [hasAttack |-> hasAttack, hostAim |-> TRUE, coRoots |-> 0,
              aimDisabled |-> FALSE, aimChecked |-> FALSE]
  /\ InitRest
  /\ InitNoCombat

NextRender ==
  \/ ComputeFields(RenderBaseline, "")
  \/ PrepareContext
  \/ \E h \in Handlers : RenderStart(h)
  \/ \E h \in Handlers : RenderFinish(h)
  \/ \E h \in Handlers : RenderFail(h)
  \/ \E o \in RenderOptionInputs : ChangeOption(o[1], o[2], 1)
  \/ ToggleEngaged

SpecRender == InitRender /\ [][NextRender]_vars

----------------------------------------------------------------------------
(* SpecManual: one dialog, manual edits between recomputations *)

ManualOptionInputs == { <<"disarm", TRUE>>, <<"disarm", FALSE>> }

\* the inputs a user edits in SpecManual: a clamped number, the unclamped damage,
\* and both inputs of one dice pair
EditedInputs == {"pool", "damage", "ed.value", "ed.dice"}

InitManual ==
  /\ weapon = Melee
  /\ target = [id |-> "t1", size |-> "average"]
  /\ systemId = "wrath-and-glory"
  /\ engaged = FALSE
  /\ actor = [fullDefence |-> FALSE, allOutAttack |-> FALSE]
  /\ fields = DefaultFields("short")
  /\ dom = [hasAttack |-> TRUE, hostAim |-> TRUE, coRoots |-> 0,
            aimDisabled |-> FALSE, aimChecked |-> FALSE]
  /\ InitRest
  /\ InitNoCombat

NextManual ==
  \/ \E e \in EmptySizeKeys : ComputeFields(RenderBaseline, e)
  \/ RenderStart(1)
  \/ RenderFinish(1)
  \/ \E n \in EditedInputs, v \in ManualValues : ManualEdit(n, v)
  \/ \E o \in ManualOptionInputs : ChangeOption(o[1], o[2], 1)

SpecManual == InitManual /\ [][NextManual]_vars

----------------------------------------------------------------------------
(* SpecAoA: the All-Out Attack condition of one actor *)

InitAoA ==
  /\ weapon = Pistol
  /\ target = [id |-> "t1", size |-> "average"]
  /\ systemId \in {"wrath-and-glory", "dnd5e"}
  /\ engaged = FALSE
  /\ \E has \in BOOLEAN : actor = [fullDefence |-> FALSE, allOutAttack |-> has]
  /\ fields = DefaultFields("short")
  /\ dom = [hasAttack |-> TRUE, hostAim |-> TRUE, coRoots |-> 0,
            aimDisabled |-> FALSE, aimChecked |-> FALSE]
  /\ InitRest
  /\ InitNoCombat

NextAoA ==
  \/ \E c \in CallSlots, enabled \in BOOLEAN : SyncCall(c, enabled)
  \/ \E c \in CallSlots : AddResolves(c)
  \/ \E c \in CallSlots : RemoveResolves(c)
  \/ \E c \in CallSlots : HostRejects(c)
  \/ ConditionRemoved

SpecAoA == InitAoA /\ [][NextAoA]_vars

----------------------------------------------------------------------------
(* SpecTurn: one combat seen from one client *)

InitTurn ==
  /\ weapon = Pistol
  /\ target = [id |-> "t1", size |-> "average"]
  /\ systemId = "wrath-and-glory"
  /\ engaged = FALSE
  /\ \E has \in BOOLEAN : actor = [fullDefence |-> FALSE, allOutAttack |-> has]
  /\ fields = DefaultFields("short")
  /\ dom = [hasAttack |-> TRUE, hostAim |-> TRUE, coRoots |-> 0,
            aimDisabled |-> FALSE, aimChecked |-> FALSE]
  /\ InitRest
  /\ primaryGM \in BOOLEAN
  /\ combat = [turn |-> 1, round |-> 1]
  /\ conditions \in [Combatants -> ActorConditionSets]
  /\ pending = <<>>
  /\ update = NoUpdate
  /\ prompts = <<>>
  /\ reminder = <<>>

\* the updates a hook may be handed
Updates == [changed : SUBSET {"turn", "round", "active"}, turn : Combatants,
            round : 1..MaxRound]

NextTurn ==
  \/ \E t \in Combatants : CombatTurn(t)
  \/ \E u \in Updates : PreUpdateCombat(u)
  \/ UpdateCombat
  \/ \E u \in Updates : RemoteUpdateCombat(u)
  \/ TimerFires

SpecTurn == InitTurn /\ [][NextTurn]_vars

----------------------------------------------------------------------------
(* SpecPatch: the start-up of the module; a dialog is recomputed by the    *)
(* computeFields patch only once the patches are registered                *)

InitPatch ==
  /\ weapon = Pistol
  /\ target = [id |-> "t1", size |-> "average"]
  /\ systemId = "wrath-and-glory"
  /\ engaged = FALSE
  /\ actor = [fullDefence |-> FALSE, allOutAttack |-> FALSE]
  /\ fields = DefaultFields("short")
  /\ dom = [hasAttack |-> TRUE, hostAim |-> TRUE, coRoots |-> 0,
            aimDisabled |-> FALSE, aimChecked |-> FALSE]
  /\ \E lib \in BOOLEAN, wd \in BOOLEAN :
       boot = [libWrapper |-> lib, WeaponDialog |-> wd, phase |-> "loaded",
               hooks |-> {}, timer |-> "none", patches |-> 0, renders |-> 0]
  /\ InitDialog
  /\ InitNoCombat

NextPatch ==
  \/ SetupHook
  \/ ReadyHook
  \/ RetryTimerFires
  \/ RenderWeaponDialogOnce
  \/ SystemPublishesWeaponDialog
  \/ /\ boot.patches >= 1
     /\ \E b \in Baselines, e \in EmptySizeKeys : ComputeFields(b, e)

SpecPatch == InitPatch /\ [][NextPatch]_vars

----------------------------------------------------------------------------
(* The claims *)

AfterComputeFields == last = "computeFields"

\* the pool bonus of the selected options: all-out attack, charge, target size
OptionPoolBonus(f) ==
  (IF f.allOutAttack THEN 2 ELSE 0)
  + (IF f.charging THEN 1 ELSE 0)
  + (CASE f.sizeModifier = "large" -> 1
       [] f.sizeModifier = "huge" -> 2
       [] f.sizeModifier = "gargantuan" -> 3
       [] OTHER -> 0)

\* the difficulty penalty of the selected options: vision, target size, cover
\* (the default cover of a dialog is no cover)
OptionDifficultyPenalty(f, w) ==
  (LET v == VISION_PENALTIES(f.visionPenalty)
   IN  IF v = <<>> THEN 0
       ELSE IF w.isMelee THEN Max0(v[1].melee) ELSE Max0(v[1].ranged))
  + (CASE f.sizeModifier = "tiny" -> 2
       [] f.sizeModifier = "small" -> 1
       [] OTHER -> 0)
  + (getCoverDifficulty(f.cover) - getCoverDifficulty(""))

\* C1 (as claimed): after computeFields for an engaged attacker with a
\* ranged weapon, pistol or not, the recorded difficulty is 2 above the host
\* baseline plus the penalties of the other options.
C1_AllRangedPlusTwoWhileEngaged ==
  (AfterComputeFields /\ engaged /\ weapon.isRanged)
    => combatExtenderDelta[1].difficulty = 2 + OptionDifficultyPenalty(fields, weapon)

\* C2 (as claimed): after computeFields for an engaged attacker with a
\* ranged weapon, pistol or not, at short range, the pool is 1 below the
\* host baseline plus the bonuses of the other options.
C2_ShortRangeSuppressedForAllRanged ==
  (AfterComputeFields /\ engaged /\ weapon.isRanged /\ fields.range = "short")
    => combatExtenderDelta[1].pool = OptionPoolBonus(fields) - 1

\* C6: the submitted flags carry the delta of the most recent
\* applyCombatExtender run (none if none ran), and that delta is, field by
\* field, the value the module computed minus the host baseline value.
C6_DeltaSynchronized ==
  /\ (combatExtenderDelta = <<>>) <=> (systemBaseline = <<>>)
  /\ flags # <<>> => flags[1].delta = combatExtenderDelta
  /\ combatExtenderDelta # <<>> =>
       LET b == systemBaseline[1]
           d == combatExtenderDelta[1]
           pistolEngaged == engaged /\ weapon.isRanged /\ weapon.pistol
           computedPool == b.pool + OptionPoolBonus(fields)
                             - (IF pistolEngaged /\ fields.range = "short" THEN 1 ELSE 0)
           computedDifficulty == b.difficulty + OptionDifficultyPenalty(fields, weapon)
                                   + (IF pistolEngaged THEN 2 ELSE 0)
           computedDamage == IF fields.disarm THEN 0 ELSE b.damage
           computedEdValue == IF fields.disarm THEN 0 ELSE b.ed.value
           computedEdDice == IF fields.disarm THEN 0 ELSE b.ed.dice
       IN  /\ d.pool = computedPool - b.pool
           /\ d.difficulty = computedDifficulty - b.difficulty
           /\ d.damage = computedDamage - b.damage
           /\ d.ed.value = computedEdValue - b.ed.value
           /\ d.ed.dice = computedEdDice - b.ed.dice
           /\ d.ap.value = b.ap.value - b.ap.value
           /\ d.ap.dice = b.ap.dice - b.ap.dice

\* C6 witness: a dialog submitted after a run with disarm and a pool bonus
C6_Witness ==
  /\ flags # <<>>
  /\ flags[1].delta # <<>>
  /\ flags[1].delta[1].pool = 3
  /\ flags[1].delta[1].damage = -5
  /\ flags[1].delta[1].ed.dice = -2

getProperty(f, name) ==
  CASE name = "ed.value" -> f.ed.value
    [] name = "ed.dice"  -> f.ed.dice
    [] name = "ap.value" -> f.ap.value
    [] name = "ap.dice"  -> f.ap.dice
    [] OTHER             -> f[name]

\* C3: aim is never in effect for an engaged attacker with a ranged weapon:
\* after every computeFields fields.aim is false, and after every completed
\* render handler (one that found the attacker engaged) the Combat Options aim
\* checkbox is disabled and unchecked.
C3_AimNeverInEffect ==
  /\ (AfterComputeFields /\ engaged /\ weapon.isRanged) => ~fields.aim
  /\ (last = "renderFinished" /\ closure.isEngaged /\ engaged /\ weapon.isRanged)
       => (dom.aimDisabled /\ ~dom.aimChecked)

\* C4: every input the user has edited by hand keeps its override for the
\* lifetime of the dialog, and after every computeFields the field holds the
\* typed value (clamped to at least 0, except damage), whatever was toggled.
C4_ManualOverridesKept ==
  /\ \A n \in DOMAIN typed : HasOverride(manualOverrides, OverrideKey(n))
  /\ AfterComputeFields =>
       \A n \in DOMAIN typed :
         getProperty(fields, n) = IF n = "damage" THEN typed[n] ELSE Max0(typed[n])

\* C4 witness: after a recomputation with disarm selected, a typed damage of 2
\* and a typed pool of -1 are in the fields as 2 and 0
C4_Witness ==
  /\ AfterComputeFields /\ fields.disarm
  /\ DOMAIN typed = {"damage", "pool"}
  /\ typed["damage"] = 2 /\ fields.damage = 2
  /\ typed["pool"] = -1 /\ fields.pool = 0

\* what a render handler may touch
dialogVars == <<staticVars, turnVars, actorVars, fields, computeVars, manualVars, flags,
                renderVars, callVars>>

RenderingHandlers == { h \in Handlers : pc[h] = "await" }

\* C5: a render event that arrives while app._isRendering is true is skipped
\* without touching the dialog, the handler body never runs twice at once on
\* a dialog, and app._isRendering is false whenever a body has finished (by
\* completion, by the early return without attack section, by an exception).
C5_RenderGuard ==
  /\ [](/\ Cardinality(RenderingHandlers) <= 1
        /\ isRendering <=> RenderingHandlers # {}
        /\ last \in {"renderFinished", "renderNoAttack", "renderFailed"} => ~isRendering)
  /\ [][\A h \in Handlers :
          (isRendering /\ RenderStart(h)) =>
             (last' = "renderSkipped" /\ UNCHANGED dialogVars)]_vars

\* C5 witness: a render event was skipped while a handler body waits for its
\* template
C5_Witness ==
  /\ last = "renderSkipped"
  /\ isRendering
  /\ RenderingHandlers # {}

\* C9: after a syncAllOutAttackCondition(actor, enabled) call completes without
\* a host error on a Wrath & Glory actor, the actor has the condition iff
\* enabled; a call with enabled on an actor that has the condition adds nothing.
C9_AllOutAttackFollowsCheckbox ==
  /\ (last = "syncDone" /\ lastCall # <<>> /\ lastCall[1].ok /\ lastCall[1].wng)
       => (actor.allOutAttack <=> lastCall[1].enabled)
  /\ \A c \in CallSlots : calls[c].pc = "adding" => ~calls[c].hadCondition

\* C9 witness: an add was awaited and resolved while another call is in flight
C9_Witness ==
  /\ last = "syncDone"
  /\ lastCall = <<[enabled |-> TRUE, ok |-> TRUE, wng |-> TRUE]>>
  /\ actor.allOutAttack
  /\ \E c \in CallSlots : calls[c].pc = "removing"

\* C10: on the active primary GM's client, after a turn-changing combat update
\* that leaves a combatant whose actor has a persistent-damage condition,
\* exactly one prompt has been opened, for that outgoing combatant, and none
\* for the combatant whose turn begins.
C10_PromptedExactlyOnce ==
  (/\ last = "updateCombat"
   /\ shouldHandlePersistentDamage
   /\ isTurnChangeUpdate(update.changed)
   /\ update.outgoing # combat.turn
   /\ actorHasPersistentDamage(update.outgoing))
    => prompts = <<update.outgoing>>

\* the ids of SLOWED_CONDITIONS among the conditions of combatant c's actor
SlowedIdsOf(c) == { id \in conditions[c] : id \in SLOWED_CONDITIONS }

\* C11: on each combatTurn event the active primary GM's client creates
\* exactly one reminder, listing every slowed condition id of combat.combatant's
\* actor, when that actor has one, and none otherwise; a client that is not the
\* active primary GM never creates a reminder.
C11_SlowedReminders ==
  /\ last = "combatTurn" =>
       IF primaryGM /\ IsWng /\ SlowedIdsOf(update.outgoing) # {}
         THEN reminder = <<SlowedIdsOf(update.outgoing)>>
         ELSE reminder = <<>>
  /\ ~primaryGM => reminder = <<>>

\* C11 witness: a combatTurn on the primary GM's client for an actor that is
\* bleeding, hindered and restrained made one reminder listing the two slowed ids
C11_Witness ==
  /\ last = "combatTurn"
  /\ primaryGM
  /\ conditions[update.outgoing] = {"bleeding", "hindered", "restrained"}
  /\ reminder = <<{"hindered", "restrained"}>>

\* C12: after any sequence of completed render handlers on a dialog with an
\* attack section there is exactly one Combat Options root; a re-render
\* replaces the block and adds no second one.
C12_InjectedExactlyOnce ==
  /\ dom.coRoots <= 1
  /\ closure.bound => (dom.hasAttack /\ dom.coRoots = 1)
  /\ ~dom.hasAttack => dom.coRoots = 0

\* C12 witness: a handler completed on a dialog whose aim option is set, which
\* only the listener of an earlier completed render can have set
C12_Witness ==
  /\ last = "renderFinished"
  /\ fields.aim
  /\ dom.coRoots = 1

\* C13: the render handler never removes the form group of the input named
\* aim from the dialog html.
C13_AimNotRemoved == [][dom.hostAim => dom'.hostAim]_vars

\* C14: modifiers do not stack: one more computeFields with the same host
\* baseline, option fields and manual overrides leaves pool, difficulty,
\* damage, ed, ap and wrath (and the recorded delta) as the last run left them.
C14_NoStacking ==
  AfterComputeFields =>
    \A e \in EmptySizeKeys :
      LET again == applyCombatExtender(fields, systemBaseline[1], manualOverrides, weapon,
                                       engaged, app.defaultCover, e)
      IN  /\ again.fields.pool = fields.pool
          /\ again.fields.difficulty = fields.difficulty
          /\ again.fields.damage = fields.damage
          /\ again.fields.ed = fields.ed
          /\ again.fields.ap = fields.ap
          /\ again.fields.wrath = fields.wrath
          /\ <<again.delta>> = combatExtenderDelta

\* C14 witness: an engaged pistol at short range, charging in dim light: the
\* run left modifiers on pool and difficulty that a second run could stack
C14_Witness ==
  /\ AfterComputeFields
  /\ engaged /\ weapon.pistol /\ fields.range = "short"
  /\ fields.charging /\ fields.visionPenalty = "dim"
  /\ combatExtenderDelta[1].pool = 0
  /\ combatExtenderDelta[1].difficulty = 4

\* the recomputed fields a claim compares with the host baseline
BaselineOf == systemBaseline[1]
DeltaOf == combatExtenderDelta[1]

\* C15: pass-through without options: with no manual overrides, an attacker
\* not engaged with a ranged weapon and combatOptionsActive(fields) false,
\* pool, difficulty, damage, ed and ap after computeFields are exactly the host
\* baseline values.
C15_PassThrough ==
  (/\ AfterComputeFields
   /\ DOMAIN manualOverrides = {}
   /\ ~(weapon.isRanged /\ engaged)
   /\ ~combatOptionsActive(fields, emptySize))
    => /\ fields.pool = BaselineOf.pool
       /\ fields.difficulty = BaselineOf.difficulty
       /\ fields.damage = BaselineOf.damage
       /\ fields.ed = BaselineOf.ed
       /\ fields.ap = BaselineOf.ap

\* C15 witness: a melee attack without options on a host baseline below zero:
\* the fields hold the host's numbers, not the clamped ones
C15_Witness ==
  /\ AfterComputeFields
  /\ DOMAIN manualOverrides = {}
  /\ weapon.isMelee
  /\ ~combatOptionsActive(fields, emptySize)
  /\ BaselineOf.pool = -1 /\ fields.pool = -1
  /\ BaselineOf.ap.dice = -4 /\ fields.ap.dice = -4

\* C16: after every computeFields pool, difficulty, wrath, ed.value, ed.dice,
\* ap.value and ap.dice are at least 0, for every host baseline, option
\* combination and manual override.
C16_NeverNegative ==
  AfterComputeFields =>
    /\ fields.pool >= 0 /\ fields.difficulty >= 0 /\ fields.wrath >= 0
    /\ fields.ed.value >= 0 /\ fields.ed.dice >= 0
    /\ fields.ap.value >= 0 /\ fields.ap.dice >= 0

\* C17: without manual overrides, after computeFields the final pool is the
\* host baseline pool plus the recorded delta.pool, and the final difficulty
\* the baseline difficulty plus delta.difficulty.
C17_DeltaAccountsForChange ==
  (AfterComputeFields /\ DOMAIN manualOverrides = {})
    => /\ fields.pool = BaselineOf.pool + DeltaOf.pool
       /\ fields.difficulty = BaselineOf.difficulty + DeltaOf.difficulty

\* what the run would have left with disarm unset, everything else the same
WithoutDisarm ==
  applyCombatExtender([fields EXCEPT !.disarm = FALSE], BaselineOf, manualOverrides,
                      weapon, engaged, app.defaultCover, emptySize).fields

WithoutOverrides ==
  applyCombatExtender(fields, BaselineOf, NoOverrides, weapon, engaged,
                      app.defaultCover, emptySize).fields

\* C19: a manual edit overrides only the edited field: when the user has
\* edited exactly one manual input, after computeFields every other manual
\* input holds the value recomputed from the host baseline and the options
\* (editing ed.value does not freeze ed.dice).
C19_OnlyEditedFieldOverridden ==
  (AfterComputeFields /\ Cardinality(DOMAIN typed) = 1) =>
    \A k \in ManualInputs \ DOMAIN typed :
      getProperty(fields, k) = getProperty(WithoutOverrides, k)

\* what computeFields yields for the fields as they are
Recomputed ==
  applyCombatExtender(fields, BaselineOf, manualOverrides, weapon, engaged,
                      app.defaultCover, emptySize).fields

\* C20: whenever the render handler has changed an option field on its own
\* (it set shouldRecompute), at the end of the handler pool and difficulty
\* equal what computeFields yields for the new option fields.
C20_ConsistentAfterRender ==
  (last = "renderFinished" /\ closure.shouldRecompute /\ systemBaseline # <<>>)
    => /\ fields.pool = Recomputed.pool
       /\ fields.difficulty = Recomputed.difficulty

\* C21: the libWrapper patches are registered at most once and never when
\* libWrapper is inactive; and if they were not registered at ready nor by the
\* 100 ms retry because the WeaponDialog class was not yet available, they are
\* registered when the first WeaponDialog renders.
C21_PatchRegistration ==
  /\ boot.patches <= 1
  /\ ~boot.libWrapper => boot.patches = 0
  /\ (boot.timer = "failed" /\ boot.renders >= 1) => boot.patches = 1

====
